---- MODULE Spec2Model ----
(***************************************************************************)
(* ChickThisOut Facebook automation: the poll pipeline (src/main.py,       *)
(* src/comment_handler.py, src/message_handler.py, src/database.py,        *)
(* src/facebook_api.py, src/ai_responder.py) and the webhook pipeline      *)
(* (api/webhook.py), running side by side against the same Facebook page.  *)
(***************************************************************************)
EXTENDS Integers, Sequences, FiniteSets, TLC

\* ------------------------------------------------------------------ bounds
MaxId == 2          \* event ids are 1..MaxId
MaxBatch == 2       \* events listed by one poll cycle / carried by one delivery
MaxThread == 6      \* messages of a conversation
MaxLen == 4         \* characters of a text the AI service returns

\* ------------------------------------------------------------- data model
Ids == 1..MaxId
NoId == 0                       \* payload without an id
Kinds == {"comment", "message"}
\* comments and messages have ids of their own: odd ids name comments, even
\* ids name messages
CommentIds == { i \in Ids : i % 2 = 1 }
MessageIds == { i \in Ids : i % 2 = 0 }

PAGE_ID == "page"               \* the id of the page the access token belongs to
Senders == {PAGE_ID, "u1"}
\* FACEBOOK_PAGE_ID as set in .env: the page's id or another one
ConfiguredPageIds == {PAGE_ID, "p0"}

SP == "sp"                      \* a whitespace character
QUOTE == "q"                    \* the character "
NoneText == <<"None">>          \* Python None where a str is expected
Texts == {<<>>, <<SP>>, <<"a">>}
RawOutputs == {NoneText, <<>>, <<SP>>, <<"a">>, <<QUOTE, "a", QUOTE>>}

None == "None"                  \* Python None in the error column

HttpOutcomes == {"ok", "http_error", "network_error"}

Secrets == {"", "s1"}           \* FACEBOOK_APP_SECRET values ("" is unset)
Bodies == {"b1", "b2"}
SIG_PREFIX == "sha256="

\* ---------------------------------------------------------------- strings
RECURSIVE LStrip(_)
LStrip(s) ==
    IF s # <<>> /\ Head(s) = SP THEN LStrip(Tail(s)) ELSE s

RECURSIVE RStrip(_)
RStrip(s) ==
    IF s # <<>> /\ s[Len(s)] = SP THEN RStrip(SubSeq(s, 1, Len(s) - 1)) ELSE s

\* str.strip()
Strip(s) == RStrip(LStrip(s))

\* a test that takes None and the empty string for a text
anything(s) == TRUE

\* truthiness of an Optional[str]
Truthy(s) == s # NoneText /\ s # <<>>

\* ----------------------------------------------------------------- ledger
\* a row of processed_comments / processed_messages (the columns the
\* pipeline decides: our_reply, replied, error)
Rec(our_reply, replied, error) ==
    [our_reply |-> our_reply, replied |-> replied, error |-> error]

NoRec == Rec(NoneText, FALSE, "NoCall")   \* no mark_* call made yet in a pass

\* a ledger check that finds no row, whatever the table holds
never_processed(table, comment_id) == FALSE

is_comment_processed(table, comment_id) == comment_id \in DOMAIN table

is_message_processed(table, message_id) == message_id \in DOMAIN table

\* session.merge + commit; a failed commit is rolled back and only logged
mark_comment_processed(table, comment_id, rec, commit_ok) ==
    IF commit_ok
    THEN [x \in DOMAIN table \cup {comment_id} |->
            IF x = comment_id THEN rec ELSE table[x]]
    ELSE table

mark_message_processed(table, message_id, rec, commit_ok) ==
    IF commit_ok
    THEN [x \in DOMAIN table \cup {message_id} |->
            IF x = message_id THEN rec ELSE table[x]]
    ELSE table

\* --------------------------------------------------------------- adapters
\* FacebookAPI._make_request: the parsed JSON (TRUE) or None (FALSE)
make_request(method, outcome) ==
    IF method \notin {"GET", "POST"} THEN FALSE
    ELSE outcome = "ok"

\* FacebookAPI.reply_to_comment / send_message
reply_to_comment(outcome) == make_request("POST", outcome)

send_message(outcome) == make_request("POST", outcome)

\* FacebookAPI.get_comment_replies: the page-authored replies it lists
get_comment_replies(replies, comment_id, outcome) ==
    IF make_request("GET", outcome) /\ comment_id \in DOMAIN replies
    THEN <<[from_id |-> PAGE_ID, message |-> replies[comment_id]]>>
    ELSE <<>>

\* a clean-up that leaves the quotes where they are
keep_quotes(t) == t

\* AIResponder.generate_response on the service's raw output
Dequote(t) ==
    IF t # <<>> /\ Head(t) = QUOTE /\ t[Len(t)] = QUOTE
    THEN SubSeq(t, 2, Len(t) - 1)
    ELSE t

generate_response(raw) ==
    IF Truthy(raw) THEN Dequote(Strip(raw)) ELSE NoneText

\* api/webhook.py generate_ai_response
generate_ai_response(raw) ==
    IF Truthy(raw) THEN Strip(raw) ELSE NoneText

\* ---------------------------------------------------------------- filters
WEBHOOK_PAGE_ID == PAGE_ID        \* api/webhook.py FACEBOOK_PAGE_ID

\* from_id == self.page_id
IsOwn(from_id, self_page_id) == from_id = self_page_id

\* not text.strip()
IsBlank(text) == Strip(text) = <<>>

\* -------------------------------------------------------------- signature
Digests == {"d01", "d02", "d11", "d12", "dxx"}

\* hmac.new(secret, payload, sha256).hexdigest()
Hmac(secret, payload) ==
    CASE secret = ""   /\ payload = "b1" -> "d01"
      [] secret = ""   /\ payload = "b2" -> "d02"
      [] secret = "s1" /\ payload = "b1" -> "d11"
      [] secret = "s1" /\ payload = "b2" -> "d12"

\* X-Hub-Signature-256 header values: absent, "sha256=<hex>", "<hex>"
Signatures ==
    {<<>>} \cup {<<SIG_PREFIX, d>> : d \in Digests} \cup {<<d>> : d \in Digests}

\* signature.replace("sha256=", "")
StripPrefix(signature) == SelectSeq(signature, LAMBDA t : t # SIG_PREFIX)

\* a signature check that accepts every header
accept_any(secret, payload, signature) == TRUE

verify_signature(secret, payload, signature) ==
    IF secret = "" THEN TRUE
    ELSE IF signature = <<>> THEN FALSE
    ELSE StripPrefix(signature) = <<Hmac(secret, payload)>>

\* ------------------------------------------------------------------ state
VARIABLES
    deployed,             \* the transports running: "bot" (main.py), "webhook"
    app_secret,           \* FACEBOOK_APP_SECRET of the webhook deployment
    page_id,              \* CommentHandler.page_id / MessageHandler.page_id
    processed_comments,   \* table processed_comments: id -> row
    processed_messages,   \* table processed_messages: id -> row
    fb_replies,           \* Facebook: comment id -> text of the page's first reply
    sent,                 \* ids for which a dispatch call has been made
    pc,                   \* poll path: position of run_check_cycle
    phase,                \* "comment" (process_all_comments) / "message" / "none"
    todo,                 \* candidates of the running cycle not yet visited
    cur,                  \* the event _process_single_* is working on
    ai_response,          \* its ai_response local
    result,               \* what _process_single_* returned for the last candidate
    log_entries,          \* bot_activity rows added by the running process_all_*
    listed,               \* whether its get_page_posts / get_conversations call
                          \* came back with data
    main_pc,              \* position of main(): "initial_check", "scheduler",
                          \* "shutdown" (scheduler.shutdown waiting), "exit"
    instances,            \* running instances of the check_cycle job
    last_tick,            \* what the scheduler did with its last tick
    wpc,                  \* push path: position of do_POST
    sig_match,            \* whether the delivery's header carries the body's HMAC
    status,               \* HTTP status of the last response
    wkind,                \* entry kind: "comment" (changes) / "message" (messaging)
    wtodo,                \* events of the entry not yet visited
    wcur,                 \* the event the webhook is working on
    w_ai,                 \* its ai_response local
    gpc,                  \* do_GET: "idle" / "parsed" (query read, not answered)
    query,                \* do_GET: its mode, token and challenge locals
    g_status,             \* HTTP status of the last do_GET response
    g_body,               \* body of the last do_GET response
    fn_pc,                \* the helper that has been called: "none", "context"
                          \* (the handler building the context it hands to the
                          \* AI responder), "generate" (generate_response),
                          \* "dispatch" (the handler calling the Facebook API),
                          \* "cycle" (process_all_comments / _messages)
    fn_in,                \* what it was called with
    fn_out                \* what it returned

envVars == <<deployed, app_secret, page_id>>
dbVars == <<processed_comments, processed_messages>>
schedVars == <<main_pc, instances, last_tick>>
cycleVars == <<log_entries, listed>>
pullVars == <<pc, phase, todo, cur, ai_response, result, cycleVars, dbVars, schedVars>>
postVars == <<wpc, sig_match, status, wkind, wtodo, wcur, w_ai>>
getVars == <<gpc, query, g_status, g_body>>
pushVars == <<postVars, getVars>>
fbVars == <<fb_replies, sent>>
fnVars == <<fn_pc, fn_in, fn_out>>
vars == <<envVars, pullVars, pushVars, fbVars, fnVars>>

NoEvent ==
    [kind |-> "none", id |-> NoId, from_id |-> "", text |-> <<>>,
     is_hidden |-> FALSE, is_echo |-> FALSE]

Event(kind, id, from_id, text, is_hidden, is_echo) ==
    [kind |-> kind, id |-> id, from_id |-> from_id, text |-> text,
     is_hidden |-> is_hidden, is_echo |-> is_echo]

\* comments as listed by get_page_posts / get_post_comments
CommentPayloads ==
    { Event("comment", i, f, t, h, FALSE) :
        i \in {NoId} \cup CommentIds, f \in Senders, t \in Texts, h \in BOOLEAN }

\* messages as listed by get_conversations / get_conversation_messages
MessagePayloads ==
    { Event("message", i, f, t, FALSE, FALSE) :
        i \in {NoId} \cup MessageIds, f \in Senders, t \in Texts }

\* the state after start-up: the handlers took page_id from the settings when
\* they were constructed; verify_token has corrected FacebookAPI.page_id alone
Start(transports, page_ids, secrets) ==
    /\ deployed \in transports
    /\ app_secret \in secrets
    /\ page_id \in page_ids
    /\ processed_comments = <<>>
    /\ processed_messages = <<>>
    /\ fb_replies = <<>>
    /\ sent = {}
    /\ pc = "idle"
    /\ phase = "none"
    /\ todo = 0
    /\ cur = NoEvent
    /\ ai_response = NoneText
    /\ result = "none"
    /\ log_entries = 0
    /\ listed = TRUE
    /\ main_pc = "initial_check"
    /\ instances = 0
    /\ last_tick = "none"
    /\ wpc = "idle"
    /\ sig_match = FALSE
    /\ status = 0
    /\ wkind = "none"
    /\ wtodo = 0
    /\ wcur = NoEvent
    /\ w_ai = NoneText
    /\ gpc = "idle"
    /\ query = [mode |-> None, token |-> None, challenge |-> None]
    /\ g_status = 0
    /\ g_body = None

\* no helper call under observation
NoCall ==
    /\ fn_pc = "none"
    /\ fn_in = None
    /\ fn_out = None

\* the bot process and the webhook deployment side by side, .env holding the
\* page's id and an app secret
Init == Start({{"bot", "webhook"}}, {PAGE_ID}, Secrets \ {""}) /\ NoCall

\* one transport deployed, the bot process or the webhook, with or without an
\* app secret
SoloInit == Start({{"bot"}, {"webhook"}}, {PAGE_ID}, Secrets) /\ NoCall

\* the bot process, whatever id .env holds
BotInit == Start({{"bot"}}, ConfiguredPageIds, Secrets) /\ NoCall

\* the bot process, .env holding the page's id
SchedInit == Start({{"bot"}}, {PAGE_ID}, Secrets \ {""}) /\ NoCall

\* ------------------------------------------------- poll path: the cycle
\* conversations as listed, newest message first: empty, one message, or a
\* message below a newer message of the page
PageMessage == Event("message", NoId, PAGE_ID, <<"a">>, FALSE, FALSE)

MessageLists ==
    {<<>>} \cup { <<m>> : m \in MessagePayloads }
           \cup { <<PageMessage, m>> : m \in MessagePayloads }

\* MessageHandler._get_latest_customer_message
RECURSIVE get_latest_customer_message(_, _)
get_latest_customer_message(messages, self_page_id) ==
    IF messages = <<>> THEN NoEvent
    ELSE IF Head(messages).from_id # self_page_id THEN Head(messages)
    ELSE get_latest_customer_message(Tail(messages), self_page_id)

\* a listing that hands over candidates whatever the request came to
listed_anyway(outcome, n) == n

\* get_page_posts / get_conversations: the candidates listed, none on a failure
Listed(outcome, n) == IF make_request("GET", outcome) THEN n ELSE 0

\* a job allowed to run two instances at a time
two_instances == 1 + 1

\* scheduler.add_job(run_check_cycle, "interval", ...): no max_instances
\* argument, so the job runs one instance at a time
max_instances == 1

\* main.run_check_cycle entering comment_handler.process_all_comments: called
\* by main() for the initial check, then by the scheduler on a tick that
\* finds a free instance of the job
RunCheckCycle ==
    /\ "bot" \in deployed
    /\ pc = "idle"
    /\ \/ /\ main_pc = "initial_check"
          /\ UNCHANGED <<instances, last_tick>>
       \/ /\ main_pc = "scheduler"
          /\ instances < max_instances
          /\ instances' = instances + 1
          /\ last_tick' = "run"
    /\ \E outcome \in HttpOutcomes, n \in 0..MaxBatch :
        /\ todo' = Listed(outcome, n)
        /\ listed' = make_request("GET", outcome)
    /\ phase' = "comment"
    /\ pc' = "next"
    /\ result' = "none"
    /\ UNCHANGED <<main_pc, cur, ai_response, log_entries, dbVars, envVars, fnVars, pushVars, fbVars>>

\* the rows the handlers hand to mark_*_processed
OwnCommentRecord == Rec(NoneText, FALSE, "Skipped: Own page comment")
HiddenCommentRecord == Rec(NoneText, FALSE, "Skipped: Hidden comment")
EmptyCommentRecord == Rec(NoneText, FALSE, "Skipped: Empty comment")
AlreadyRepliedRecord(reply_text) == Rec(reply_text, TRUE, None)
OwnMessageRecord == Rec(NoneText, FALSE, "Skipped: Own page message")
EmptyMessageRecord == Rec(NoneText, FALSE, "Skipped: Empty message")
AiFailedRecord == Rec(NoneText, FALSE, "AI failed to generate response")
RepliedRecord(reply_text) == Rec(reply_text, TRUE, None)
\* a row that stores a failure reason and replied = TRUE
replied_with_error(reply_text) ==
    Rec(reply_text, TRUE, "Failed to post reply to Facebook")

PostFailedRecord(reply_text) ==
    Rec(reply_text, FALSE, "Failed to post reply to Facebook")
SendFailedRecord(reply_text) ==
    Rec(reply_text, FALSE, "Failed to send message via Facebook")

\* the filters tried on hidden before self
hidden_first(e, self_page_id) ==
    IF e.is_hidden THEN HiddenCommentRecord
    ELSE IF IsOwn(e.from_id, self_page_id) THEN OwnCommentRecord
    ELSE IF IsBlank(e.text) THEN EmptyCommentRecord
    ELSE NoRec

\* comment_handler.py 100-137: the row of the first filter that matches a
\* comment (self, hidden, empty), NoRec when none does
comment_filters(e, self_page_id) ==
    IF IsOwn(e.from_id, self_page_id) THEN OwnCommentRecord
    ELSE IF e.is_hidden THEN HiddenCommentRecord
    ELSE IF IsBlank(e.text) THEN EmptyCommentRecord
    ELSE NoRec

\* message_handler.py 133-157: the same for a message (self, empty)
message_filters(e, self_page_id) ==
    IF IsOwn(e.from_id, self_page_id) THEN OwnMessageRecord
    ELSE IF IsBlank(e.text) THEN EmptyMessageRecord
    ELSE NoRec

\* mark_comment_processed / mark_message_processed for event e, then return
\* `value` to the loop of process_all_*; rec = NoRec: return without a mark call
Finish(e, rec, value) ==
    /\ \E commit_ok \in BOOLEAN :
        IF rec = NoRec
        THEN UNCHANGED dbVars
        ELSE IF e.kind = "comment"
        THEN /\ processed_comments' =
                  mark_comment_processed(processed_comments, e.id, rec, commit_ok)
             /\ UNCHANGED processed_messages
        ELSE /\ processed_messages' =
                  mark_message_processed(processed_messages, e.id, rec, commit_ok)
             /\ UNCHANGED processed_comments
    /\ cur' = NoEvent
    /\ result' = value
    /\ pc' = "next"

\* an exception that nothing catches: it leaves process_all_* and
\* run_check_cycle, and the cycle stops where it stands
propagate ==
    /\ cur' = NoEvent
    /\ result' = "none"
    /\ pc' = "killed"
    /\ UNCHANGED dbVars

\* an exception leaves _process_single_*: the except clause of process_all_*
\* counts one error and the function returns, whatever is left in the loop
Abort ==
    /\ cur' = NoEvent
    /\ result' = "none"
    /\ pc' = "return"
    /\ UNCHANGED dbVars

\* the handler goes on with event e at `step`
Proceed(e, step) ==
    /\ cur' = e
    /\ result' = "none"
    /\ pc' = step
    /\ UNCHANGED dbVars

\* _process_single_comment 93-98 / _process_single_message 126-131: what the
\* id check and the ledger check make of an event: "error" without an id,
\* "skipped" with a ledger row, "go" otherwise, "raise" when the query fails
ledger_gate(id, processed, query_ok) ==
    IF id = NoId THEN "error"
    ELSE IF ~query_ok THEN "raise"
    ELSE IF processed THEN "skipped"
    ELSE "go"

\* the counters of the stats dict that depend on what _process_single_* returns
StatsValues ==
    [new_count : 0..1, replies_sent : 0..1, errors : 0..1]

\* a loop that counts a reply without counting the event as new
tally_replies_only(stats, value) ==
    IF value = "replied" THEN [stats EXCEPT !.replies_sent = @ + 1] ELSE stats

\* a loop that counts every candidate it visits as new
tally_as_new(stats, value) ==
    [stats EXCEPT !.new_count = @ + 1]

\* process_all_comments 58-66 / process_all_messages 61-69: the counters
\* after a candidate for which _process_single_* returned `value`
tally(stats, value) ==
    IF value = "replied"
    THEN [stats EXCEPT !.replies_sent = @ + 1, !.new_count = @ + 1]
    ELSE IF value = "skipped" THEN stats
    ELSE IF value = "new" THEN [stats EXCEPT !.new_count = @ + 1]
    ELSE IF value = "error" THEN [stats EXCEPT !.errors = @ + 1]
    ELSE stats

\* process_all_comments 56-66 with _process_single_comment 87-137: the next
\* listed comment; id check, ledger check, own/hidden/empty filters
CheckComment ==
    /\ pc = "next"
    /\ phase = "comment"
    /\ todo > 0
    /\ todo' = todo - 1
    /\ \E e \in CommentPayloads, query_ok \in BOOLEAN :
        LET gate == ledger_gate(e.id, is_comment_processed(processed_comments, e.id),
                                query_ok)
        IN
        IF gate = "raise" THEN Abort
        ELSE IF gate # "go" THEN Finish(e, NoRec, gate)
        ELSE IF comment_filters(e, page_id) # NoRec
             THEN Finish(e, comment_filters(e, page_id), "new")
        ELSE Proceed(e, "lookup")
    /\ UNCHANGED <<phase, ai_response, cycleVars, envVars, fnVars, schedVars, pushVars, fbVars>>

\* process_all_messages 43-69 with _process_single_message 120-157: the next
\* conversation's latest customer message; id check, ledger check, own/empty
\* filters
CheckMessage ==
    /\ pc = "next"
    /\ phase = "message"
    /\ todo > 0
    /\ todo' = todo - 1
    /\ \E messages \in MessageLists, query_ok \in BOOLEAN :
        LET e == get_latest_customer_message(messages, page_id)
            gate == ledger_gate(e.id, is_message_processed(processed_messages, e.id),
                                query_ok)
        IN
        IF e = NoEvent THEN Finish(e, NoRec, result)
        ELSE IF gate = "raise" THEN Abort
        ELSE IF gate # "go" THEN Finish(e, NoRec, gate)
        ELSE IF message_filters(e, page_id) # NoRec
             THEN Finish(e, message_filters(e, page_id), "new")
        ELSE Proceed(e, "generate")
    /\ UNCHANGED <<phase, ai_response, cycleVars, envVars, fnVars, schedVars, pushVars, fbVars>>

\* comment_handler.py 139-154: a reply of ours already under the comment?
LookupReplies ==
    /\ pc = "lookup"
    /\ \E outcome \in HttpOutcomes :
        LET existing_replies == get_comment_replies(fb_replies, cur.id, outcome)
            ours == SelectSeq(existing_replies, LAMBDA reply : reply.from_id = page_id)
        IN
        IF ours # <<>>
        THEN Finish(cur, AlreadyRepliedRecord(Head(ours).message), "skipped")
        ELSE Proceed(cur, "generate")
    /\ UNCHANGED <<phase, todo, ai_response, cycleVars, envVars, fnVars, schedVars, pushVars, fbVars>>

\* comment_handler.py 156-170 / message_handler.py 159-176: the AI reply
Generate ==
    /\ pc = "generate"
    /\ \E raw \in RawOutputs :
        IF Truthy(generate_response(raw))
        THEN /\ ai_response' = generate_response(raw)
             /\ Proceed(cur, "dispatch")
        ELSE /\ ai_response' = NoneText
             /\ Finish(cur, AiFailedRecord, "error")
    /\ UNCHANGED <<phase, todo, cycleVars, envVars, fnVars, schedVars, pushVars, fbVars>>

\* Facebook after a page reply is posted under a comment
PostReply(replies, comment_id, text) ==
    IF comment_id \in DOMAIN replies THEN replies
    ELSE [x \in DOMAIN replies \cup {comment_id} |->
            IF x = comment_id THEN text ELSE replies[x]]

\* a handler that answers every event with a direct message to its author
always_direct(e, text) ==
    [api |-> "send_message", comment_id |-> NoId, recipient_id |-> e.from_id,
     message |-> text]

\* comment_handler.py 173: self.fb.reply_to_comment(comment_id, ai_response);
\* message_handler.py 179: self.fb.send_message(from_id, ai_response)
dispatch_call(e, text) ==
    IF e.kind = "comment"
    THEN [api |-> "reply_to_comment", comment_id |-> e.id, recipient_id |-> "",
          message |-> text]
    ELSE [api |-> "send_message", comment_id |-> NoId, recipient_id |-> e.from_id,
          message |-> text]

\* comment_handler.py 172-198 / message_handler.py 178-204: send, then record
Dispatch ==
    /\ pc = "dispatch"
    /\ sent' = sent \cup {cur.id}
    /\ \E outcome \in HttpOutcomes :
        LET call == dispatch_call(cur, ai_response) IN
        IF call.api = "reply_to_comment"
        THEN IF reply_to_comment(outcome)
             THEN /\ fb_replies' = PostReply(fb_replies, call.comment_id, call.message)
                  /\ Finish(cur, RepliedRecord(ai_response), "replied")
             ELSE /\ UNCHANGED fb_replies
                  /\ Finish(cur, PostFailedRecord(ai_response), "error")
        ELSE /\ UNCHANGED fb_replies
             /\ IF send_message(outcome)
                THEN Finish(cur, RepliedRecord(ai_response), "replied")
                ELSE Finish(cur, SendFailedRecord(ai_response), "error")
    /\ ai_response' = NoneText
    /\ UNCHANGED <<phase, todo, cycleVars, envVars, fnVars, schedVars, pushVars>>

\* DatabaseManager.log_activity: session.add + commit; a failed commit is
\* rolled back and only logged
log_activity(entries, commit_ok) == IF commit_ok THEN entries + 1 ELSE entries

\* the loop is exhausted: db.log_activity, then return stats
EndCycle ==
    /\ pc = "next"
    /\ todo = 0
    /\ pc' = "return"
    /\ result' = "none"
    /\ \E commit_ok \in BOOLEAN : log_entries' = log_activity(log_entries, commit_ok)
    /\ UNCHANGED <<phase, todo, cur, ai_response, listed, dbVars, envVars, fnVars, schedVars, pushVars, fbVars>>

\* run_check_cycle goes on: process_all_messages after process_all_comments,
\* back to the scheduler after process_all_messages
Return ==
    /\ pc = "return"
    /\ IF phase = "comment"
       THEN /\ \E outcome \in HttpOutcomes, n \in 0..MaxBatch :
                /\ todo' = Listed(outcome, n)
                /\ listed' = make_request("GET", outcome)
            /\ phase' = "message"
            /\ pc' = "next"
            /\ UNCHANGED schedVars
       ELSE /\ todo' = 0
            /\ listed' = TRUE
            /\ phase' = "none"
            /\ pc' = "idle"
            /\ IF main_pc = "initial_check"
               THEN /\ main_pc' = "scheduler"
                    /\ UNCHANGED <<instances, last_tick>>
               ELSE /\ instances' = instances - 1
                    /\ UNCHANGED <<main_pc, last_tick>>
    /\ log_entries' = 0
    /\ UNCHANGED <<cur, ai_response, result, dbVars, envVars, fnVars, pushVars, fbVars>>

Pull ==
    \/ RunCheckCycle
    \/ CheckComment
    \/ CheckMessage
    \/ LookupReplies
    \/ Generate
    \/ Dispatch
    \/ EndCycle
    \/ Return

\* ------------------------------------------------ main(): scheduler, signals
\* the interval fires while instances of the job are running: the scheduler
\* skips the run once max_instances are running (a warning is logged)
TickWhileRunning ==
    /\ main_pc = "scheduler"
    /\ instances > 0
    /\ IF instances >= max_instances
       THEN /\ last_tick' = "skipped"
            /\ UNCHANGED instances
       ELSE /\ last_tick' = "run"
            /\ instances' = instances + 1
    /\ UNCHANGED <<main_pc, pc, phase, todo, cur, ai_response, result, cycleVars,
                   dbVars, envVars, fnVars, pushVars, fbVars>>

\* Ctrl+C. main.py 154: the initial check runs in the main thread outside
\* any try, so KeyboardInterrupt (not an Exception) leaves run_check_cycle
\* and main() where the cycle stands. main.py 167-173: under
\* scheduler.start() it is caught and scheduler.shutdown() waits for the job
KeyboardInterrupt ==
    /\ "bot" \in deployed
    /\ \/ /\ main_pc = "initial_check"
          /\ main_pc' = "exit"
          /\ pc' = IF pc = "idle" THEN "idle" ELSE "killed"
       \/ /\ main_pc = "scheduler"
          /\ main_pc' = "shutdown"
          /\ UNCHANGED pc
    /\ UNCHANGED <<instances, last_tick, phase, todo, cur, ai_response, result,
                   cycleVars, dbVars, envVars, fnVars, pushVars, fbVars>>

\* scheduler.shutdown() returns once no job instance is running
ShutdownDone ==
    /\ main_pc = "shutdown"
    /\ instances = 0
    /\ main_pc' = "exit"
    /\ UNCHANGED <<instances, last_tick, pc, phase, todo, cur, ai_response, result,
                   cycleVars, dbVars, envVars, fnVars, pushVars, fbVars>>

Signals ==
    \/ KeyboardInterrupt
    \/ ShutdownDone

\* ------------------------------------------------ push path: api/webhook.py
\* feed changes (value.item == "comment", value.verb == "add" or not); whether
\* the comment is hidden on the page is not part of what the webhook reads
WebhookComments ==
    { Event("comment", i, f, t, h, FALSE) :
        i \in {NoId} \cup CommentIds, f \in Senders, t \in Texts, h \in BOOLEAN }

\* messaging events; the webhook never reads message.mid, present or not
WebhookMessages ==
    { Event("message", i, f, t, FALSE, e) :
        i \in {NoId} \cup MessageIds, f \in Senders, t \in Texts, e \in BOOLEAN }

\* a handler that answers 500 whenever the signature passes
always_failed(signature_ok, handled_ok) == IF signature_ok THEN 500 ELSE 403

\* handler.do_POST: the status it answers with: 403 on a bad signature
\* (217-221), 500 when an exception reaches the except clause (244-247), 200
\* once the entries are done (238-242)
post_status(signature_ok, handled_ok) ==
    IF ~signature_ok THEN 403
    ELSE IF ~handled_ok THEN 500
    ELSE 200

\* handler.do_POST 208-236: read the body, check the signature, parse (a body
\* json.loads cannot parse, or one that is not an object with a list of
\* entries, ends in the except clause: 500)
PushReceive ==
    /\ "webhook" \in deployed
    /\ wpc = "idle"
    /\ \E body \in Bodies, signature \in Signatures, parse_ok \in BOOLEAN :
        /\ sig_match' = (signature \in { <<SIG_PREFIX, Hmac(app_secret, body)>>,
                                         <<Hmac(app_secret, body)>> })
        /\ IF app_secret # "" /\ ~verify_signature(app_secret, body, signature)
           THEN /\ status' = post_status(FALSE, parse_ok)
                /\ wpc' = "idle"
                /\ wkind' = "none"
                /\ wtodo' = 0
           ELSE IF ~parse_ok
           THEN /\ status' = post_status(TRUE, FALSE)
                /\ wpc' = "idle"
                /\ wkind' = "none"
                /\ wtodo' = 0
           ELSE /\ status' = 0
                /\ wpc' = "event"
                /\ \E k \in Kinds, n \in 0..MaxBatch :
                    /\ wkind' = k
                    /\ wtodo' = n
    /\ UNCHANGED <<wcur, w_ai, getVars, envVars, fnVars, pullVars, fbVars>>

\* the webhook goes on with event e at `step`, `left` events still to visit
PushProceed(e, step, left) ==
    /\ wcur' = e
    /\ wpc' = step
    /\ wtodo' = left

\* process_comment_event 129-147 / process_message_event 160-172: the next
\* event of the entry and its filters; a message of the page or an echo makes
\* process_message_event return with that event in hand, its text not read
PushEvent ==
    /\ wpc = "event"
    /\ wtodo > 0
    /\ IF wkind = "comment"
       THEN \E e \in WebhookComments, is_new_comment \in BOOLEAN :
              IF ~is_new_comment THEN PushProceed(NoEvent, "event", wtodo - 1)
              ELSE IF e.from_id = WEBHOOK_PAGE_ID THEN PushProceed(NoEvent, "event", 0)
              ELSE IF e.id # NoId /\ e.text # <<>>
                   THEN PushProceed(e, "generate", wtodo - 1)
              ELSE PushProceed(NoEvent, "event", wtodo - 1)
       ELSE \E e \in WebhookMessages :
              IF e.from_id = WEBHOOK_PAGE_ID \/ e.is_echo
              THEN PushProceed([e EXCEPT !.text = <<>>], "event", 0)
              ELSE IF e.text # <<>> THEN PushProceed(e, "generate", wtodo - 1)
              ELSE PushProceed(NoEvent, "event", wtodo - 1)
    /\ UNCHANGED <<sig_match, status, wkind, w_ai, getVars, envVars, fnVars, pullVars, fbVars>>

\* process_*_event: ai_response = generate_ai_response(message)
PushGenerate ==
    /\ wpc = "generate"
    /\ \E raw \in RawOutputs :
        IF Truthy(generate_ai_response(raw))
        THEN /\ w_ai' = generate_ai_response(raw)
             /\ PushProceed(wcur, "dispatch", wtodo)
        ELSE /\ w_ai' = NoneText
             /\ PushProceed(NoEvent, "event", wtodo)
    /\ UNCHANGED <<sig_match, status, wkind, getVars, envVars, fnVars, pullVars, fbVars>>

\* process_*_event: reply_to_comment(comment_id, ai_response) /
\* send_message(sender_id, ai_response)
PushDispatch ==
    /\ wpc = "dispatch"
    /\ sent' = IF wcur.id = NoId THEN sent ELSE sent \cup {wcur.id}
    /\ \E outcome \in HttpOutcomes :
        fb_replies' = IF wcur.kind = "comment" /\ outcome = "ok"
                      THEN PostReply(fb_replies, wcur.id, w_ai)
                      ELSE fb_replies
    /\ w_ai' = NoneText
    /\ PushProceed(NoEvent, "event", wtodo)
    /\ UNCHANGED <<sig_match, status, wkind, getVars, envVars, fnVars, pullVars>>

\* handler.do_POST 238-242: always 200 once the entries are done
PushRespond ==
    /\ wpc = "event"
    /\ wtodo = 0
    /\ status' = post_status(TRUE, TRUE)
    /\ wpc' = "idle"
    /\ wkind' = "none"
    /\ wcur' = NoEvent
    /\ UNCHANGED <<sig_match, wtodo, w_ai, getVars, envVars, fnVars, pullVars, fbVars>>

Push ==
    \/ PushReceive
    \/ PushEvent
    \/ PushGenerate
    \/ PushDispatch
    \/ PushRespond

\* ------------------------------------------- push path: the verification GET
VERIFY_TOKEN == "chickthisout_verify_2024"    \* FACEBOOK_VERIFY_TOKEN

\* the values a query parameter can have in the URL: the key absent (None),
\* present with a blank value, or present with a value
QueryModes == {None, "", "subscribe", "unsubscribe"}
QueryTokens == {None, "", VERIFY_TOKEN, "wrong"}
QueryChallenges == {None, "", "c1", "c2"}

\* parse_qs(...).get(key, [None])[0]: parse_qs drops blank values, so a key
\* without a value reads as an absent key
query_get(raw) == IF raw = "" THEN None ELSE raw

\* handler.do_GET 186-193: read mode, token and challenge from the query
GetParse ==
    /\ "webhook" \in deployed
    /\ gpc = "idle"
    /\ \E m \in QueryModes, t \in QueryTokens, c \in QueryChallenges :
        query' = [mode |-> query_get(m), token |-> query_get(t),
                  challenge |-> query_get(c)]
    /\ gpc' = "parsed"
    /\ UNCHANGED <<g_status, g_body, postVars, envVars, fnVars, pullVars, fbVars>>

\* handler.do_GET 195-206: 200 and the challenge, or 403. challenge.encode()
\* on an absent challenge raises after the 200 header went out: no body
GetRespond ==
    /\ gpc = "parsed"
    /\ IF query.mode = "subscribe" /\ query.token = VERIFY_TOKEN
       THEN /\ g_status' = 200
            /\ g_body' = IF query.challenge = None THEN None ELSE query.challenge
       ELSE /\ g_status' = 403
            /\ g_body' = "Verification failed"
    /\ gpc' = "idle"
    /\ UNCHANGED <<query, postVars, envVars, fnVars, pullVars, fbVars>>

Verify ==
    \/ GetParse
    \/ GetRespond

\* ------------------------------------------- the context of a generation call
NL == "nl"                      \* the newline character
CONTEXT_LIMIT == 5              \* _build_conversation_context(..., limit=5)

\* a message of a conversation as the Graph API returns it: the sender's name
\* (None: no name in "from") and the text ("": an attachment without text)
ThreadMessages == [name : {None, "Ann"}, text : {"", "hi"}]

\* conversations, newest message first
Threads == UNION { [1..n -> ThreadMessages] : n \in 0..MaxThread }

\* FacebookAPI.get_conversation_messages(conversation_id, limit): the newest
\* `limit` messages, newest first; [] when the request fails
get_conversation_messages(thread, limit, outcome) ==
    IF make_request("GET", outcome)
    THEN SubSeq(thread, 1, IF Len(thread) < limit THEN Len(thread) ELSE limit)
    ELSE <<>>

\* a context that keeps the order of the listing, newest first
newest_first(messages) == messages

\* reversed(messages)
RECURSIVE reversed(_)
reversed(messages) ==
    IF messages = <<>> THEN <<>>
    ELSE Append(reversed(Tail(messages)), Head(messages))

\* message_handler.py 211-216: one "<name>: <text>" line per message that has
\* a text, "Unknown" for a sender without a name
RECURSIVE context_lines(_)
context_lines(messages) ==
    IF messages = <<>> THEN <<>>
    ELSE LET msg == Head(messages)
             from_name == IF msg.name = None THEN "Unknown" ELSE msg.name
         IN IF msg.text # ""
            THEN <<<<from_name, ": ", msg.text>>>> \o context_lines(Tail(messages))
            ELSE context_lines(Tail(messages))

\* "\n".join(lines), the string as the sequence of its pieces
RECURSIVE join(_)
join(lines) ==
    IF lines = <<>> THEN <<>>
    ELSE IF Len(lines) = 1 THEN Head(lines)
    ELSE Head(lines) \o <<NL>> \o join(Tail(lines))

\* MessageHandler._build_conversation_context 206-222
build_conversation_context(thread, outcome) ==
    join(context_lines(reversed(
        get_conversation_messages(thread, CONTEXT_LIMIT, outcome))))

\* what the handlers are called with: a comment, or a message of a
\* conversation together with what the request for its messages comes to
ContextCalls ==
    {[kind |-> "comment", thread |-> <<>>, outcome |-> "ok"]}
    \cup [kind : {"message"}, thread : Threads, outcome : HttpOutcomes]

\* comment_handler.py 158: generate_comment_reply(comment_text), no context;
\* message_handler.py 160-164: generate_message_reply(message_text,
\* conversation_context)
BuildContext ==
    /\ fn_pc = "none"
    /\ fn_in \in ContextCalls
    /\ fn_pc' = "context"
    /\ fn_out' = IF fn_in.kind = "comment" THEN None
                 ELSE build_conversation_context(fn_in.thread, fn_in.outcome)
    /\ UNCHANGED <<fn_in, envVars, pullVars, pushVars, fbVars>>

\* ------------------------------------------------ the text of a generation
\* response.text: None, or a string of spaces, quotes and letters
ServiceTexts ==
    {NoneText} \cup UNION { [1..n -> {SP, QUOTE, "a"}] : n \in 0..MaxLen }

\* ai_responder.py 112-125: generate_response on what the service returned
PostProcess ==
    /\ fn_pc = "none"
    /\ fn_in \in ServiceTexts
    /\ fn_pc' = "generate"
    /\ fn_out' = generate_response(fn_in)
    /\ UNCHANGED <<fn_in, envVars, pullVars, pushVars, fbVars>>

\* ------------------------------------------------ the target of a dispatch
Customers == {"u1", "u2", "u3"}

\* the texts generate_response hands to the handlers as a reply
ReplyTexts ==
    { generate_response(raw) : raw \in ServiceTexts } \ {NoneText, <<>>}

\* the events a handler dispatches a reply for, each with its reply
DispatchInputs ==
    [event : { Event("comment", i, f, <<"a">>, FALSE, FALSE) :
                 i \in CommentIds, f \in Customers }
             \cup { Event("message", i, f, <<"a">>, FALSE, FALSE) :
                      i \in MessageIds, f \in Customers },
     ai_response : ReplyTexts]

\* comment_handler.py 172-173 / message_handler.py 178-179: the call made
\* for an event and its reply
MakeDispatchCall ==
    /\ fn_pc = "none"
    /\ fn_in \in DispatchInputs
    /\ fn_pc' = "dispatch"
    /\ fn_out' = dispatch_call(fn_in.event, fn_in.ai_response)
    /\ UNCHANGED <<fn_in, envVars, pullVars, pushVars, fbVars>>

\* ------------------------------------------------ the stats of a poll cycle
\* what happens around one candidate: whether the ledger query works and
\* finds a row, whether the lookup finds a reply of the page (comments), what
\* the AI service returns and what the dispatch request comes to
Fate(query_ok, processed, replied_before, raw, outcome) ==
    [query_ok |-> query_ok, processed |-> processed,
     replied_before |-> replied_before, raw |-> raw, outcome |-> outcome]

Fates ==
    { Fate(FALSE, FALSE, FALSE, NoneText, "ok"),
      Fate(TRUE, TRUE, FALSE, NoneText, "ok"),
      Fate(TRUE, FALSE, TRUE, NoneText, "ok"),
      Fate(TRUE, FALSE, FALSE, NoneText, "ok"),
      Fate(TRUE, FALSE, FALSE, <<"a">>, "network_error"),
      Fate(TRUE, FALSE, FALSE, <<"a">>, "ok") }

\* one comment of a post / the messages fetched for one conversation (`size`
\* of them) with the latest customer message among them, NoEvent when there
\* is none
CommentCandidates ==
    [size : {1},
     e : { Event("comment", i, f, t, FALSE, FALSE) :
             i \in {NoId, 1}, f \in Senders, t \in {<<>>, <<"a">>} },
     fate : Fates]

MessageCandidates ==
    [size : {1, 2},
     e : { Event("message", i, "u1", t, FALSE, FALSE) :
             i \in {NoId, 2}, t \in {<<>>, <<"a">>} },
     fate : Fates]
    \cup [size : {0, 1}, e : {NoEvent}, fate : {Fate(TRUE, FALSE, FALSE, NoneText, "ok")}]

\* _process_single_comment 87-198 / _process_single_message 120-204 as a
\* function of the candidate and its fate: the value returned ("raise": an
\* exception leaves it) and whether a dispatch call succeeded
process_single(c, self_page_id) ==
    LET e == c.e
        gate == ledger_gate(e.id, c.fate.processed, c.fate.query_ok)
        filtered == IF e.kind = "comment" THEN comment_filters(e, self_page_id)
                    ELSE message_filters(e, self_page_id)
    IN
    IF gate # "go" THEN [value |-> gate, dispatched |-> FALSE]
    ELSE IF filtered # NoRec THEN [value |-> "new", dispatched |-> FALSE]
    ELSE IF e.kind = "comment" /\ c.fate.replied_before
         THEN [value |-> "skipped", dispatched |-> FALSE]
    ELSE IF ~Truthy(generate_response(c.fate.raw))
         THEN [value |-> "error", dispatched |-> FALSE]
    ELSE IF make_request("POST", c.fate.outcome)
         THEN [value |-> "replied", dispatched |-> TRUE]
    ELSE [value |-> "error", dispatched |-> FALSE]

\* the loop of process_all_comments 54-66 / process_all_messages 43-69 over
\* the candidates left, with the except clause (71-73 / 74-76) for an
\* exception; `run` carries the stats and the successful dispatch calls
RECURSIVE run_loop(_, _, _)
run_loop(run, candidates, self_page_id) ==
    IF candidates = <<>> THEN run
    ELSE LET c == Head(candidates)
             found == [run.stats EXCEPT !.found = @ + c.size]
             r == process_single(c, self_page_id)
         IN IF c.e = NoEvent
            THEN run_loop([run EXCEPT !.stats = found], Tail(candidates), self_page_id)
            ELSE IF r.value = "raise"
            THEN [run EXCEPT !.stats = [found EXCEPT !.errors = @ + 1]]
            ELSE run_loop([stats |-> tally(found, r.value),
                           dispatched |-> run.dispatched + (IF r.dispatched THEN 1 ELSE 0)],
                          Tail(candidates), self_page_id)

\* process_all_comments 30-75 (one post with its comments) /
\* process_all_messages 30-78 (the conversations listed)
process_all(kind, candidates, self_page_id) ==
    run_loop([stats |-> [checked |-> IF kind = "comment" THEN 1 ELSE Len(candidates),
                         found |-> 0, new_count |-> 0, replies_sent |-> 0,
                         errors |-> 0],
              dispatched |-> 0],
             candidates, self_page_id)

\* the cycles: a kind and the candidates listed
Cycles ==
    [kind : {"comment"},
     candidates : UNION { [1..n -> CommentCandidates] : n \in 0..MaxBatch }]
    \cup [kind : {"message"},
          candidates : UNION { [1..n -> MessageCandidates] : n \in 0..MaxBatch }]

\* one orchestration cycle from its listing to the stats it returns
RunCycle ==
    /\ fn_pc = "none"
    /\ fn_in \in Cycles
    /\ fn_pc' = "cycle"
    /\ fn_out' = process_all(fn_in.kind, fn_in.candidates, page_id)
    /\ UNCHANGED <<fn_in, envVars, pullVars, pushVars, fbVars>>

\* ---------------------------------------------------------- specification
Next == Pull \/ Push

Spec == Init /\ [][Next]_vars

SoloSpec == SoloInit /\ [][Next]_vars

BotSpec == BotInit /\ [][Pull]_vars

\* the bot process and every tick of its scheduler
SchedSpec == SchedInit /\ [][Pull \/ TickWhileRunning]_vars

\* the bot process, its scheduler and the operator's Ctrl+C
ShutdownSpec == SchedInit /\ [][Pull \/ TickWhileRunning \/ Signals]_vars

\* comment_handler.py 173-186 / message_handler.py 179-192: the dispatch call
\* with Facebook accepting the reply: `if result:` is taken
DispatchAccepted == Dispatch /\ result' = "replied"

\* the poll cycle while Facebook accepts every reply that is dispatched
AcceptedPull ==
    \/ RunCheckCycle
    \/ CheckComment
    \/ CheckMessage
    \/ LookupReplies
    \/ Generate
    \/ DispatchAccepted
    \/ EndCycle
    \/ Return

\* the bot process, every dispatched reply delivered
AcceptedSpec == SchedInit /\ [][AcceptedPull]_vars

\* the webhook deployment answering verification requests
VerifyInit == Start({{"webhook"}}, {PAGE_ID}, Secrets) /\ NoCall

VerifySpec == VerifyInit /\ [][Verify]_vars

\* the bot process about to build the context of one generation call
ContextInit ==
    /\ Start({{"bot"}}, {PAGE_ID}, Secrets \ {""})
    /\ fn_pc = "none"
    /\ fn_in \in ContextCalls
    /\ fn_out = None

ContextSpec == ContextInit /\ [][BuildContext]_vars

\* the bot process about to clean up the text of one generation
TextInit ==
    /\ Start({{"bot"}}, {PAGE_ID}, Secrets \ {""})
    /\ fn_pc = "none"
    /\ fn_in \in ServiceTexts
    /\ fn_out = None

TextSpec == TextInit /\ [][PostProcess]_vars

\* the bot process about to dispatch the reply to one event
DispatchInit ==
    /\ Start({{"bot"}}, {PAGE_ID}, Secrets \ {""})
    /\ fn_pc = "none"
    /\ fn_in \in DispatchInputs
    /\ fn_out = None

DispatchSpec == DispatchInit /\ [][MakeDispatchCall]_vars

\* the bot process about to run one orchestration cycle
StatsInit ==
    /\ Start({{"bot"}}, {PAGE_ID}, Secrets \ {""})
    /\ fn_pc = "none"
    /\ fn_in \in Cycles
    /\ fn_out = None

StatsSpec == StatsInit /\ [][RunCycle]_vars

\* ------------------------------------------------------------- properties
\* C1 (race safety): when the webhook and the poll cycle work on the same id
\* at the same time, only one of them gets as far as the dispatch call.
C1_OneDispatcher ==
    ~(pc = "dispatch" /\ wpc = "dispatch" /\ cur.id = wcur.id)

\* C2 (idempotence of the poll pipeline): a later pass over a payload the
\* pipeline has already sent a reply for makes no second dispatch call for
\* that id.
C2_OneDispatchPerId ==
    pc = "dispatch" => cur.id \notin sent

\* C3 (at most once on the push path): the webhook makes no dispatch call for
\* an id a dispatch call has already been made for.
C3_PushAtMostOnce ==
    wpc = "dispatch" => wcur.id \notin sent

\* C4 (freeze-on-terminal): once a ledger row exists for an id, whatever
\* outcome it stores, no poll cycle takes that id to the existing-reply
\* lookup, the generation call or the dispatch call.
C4_FreezeOnTerminal ==
    pc \in {"lookup", "generate", "dispatch"} =>
        cur.id \notin DOMAIN processed_comments \cup DOMAIN processed_messages

\* a message whose row stores a failure was listed again and skipped
C4_Witness ==
    /\ pc = "next"
    /\ phase = "message"
    /\ result = "skipped"
    /\ \E i \in DOMAIN processed_messages : ~processed_messages[i].replied

\* C5 (self-origin exclusion): an event authored by the page itself never
\* reaches the generation call, on the poll path or on the webhook.
C5_SelfExcluded ==
    /\ pc \in {"generate", "dispatch"} => cur.from_id # PAGE_ID
    /\ wpc \in {"generate", "dispatch"} => wcur.from_id # PAGE_ID

\* C6 (empty-text exclusion): an event whose text is empty or whitespace-only
\* never reaches the generation call, on the poll path or on the webhook.
C6_BlankExcluded ==
    /\ pc = "generate" => ~IsBlank(cur.text)
    /\ wpc = "generate" => ~IsBlank(wcur.text)

\* C7 (per-event failure isolation): process_all_comments /
\* process_all_messages never returns while listed candidates are still
\* unvisited.
C7_CycleNotAborted ==
    pc = "return" => todo = 0

\* C8 (generation failure outcome): when the generation call fails, the pass
\* ends with a ledger row for the event holding replied = FALSE and the
\* generation-failure reason, and with no dispatch call made.
C8_GenerationFailureRecorded ==
    [][(pc = "generate" /\ pc' = "next") =>
          LET ledger == IF cur.kind = "comment"
                        THEN processed_comments' ELSE processed_messages'
          IN /\ cur.id \in DOMAIN ledger
             /\ ledger[cur.id] = AiFailedRecord
             /\ sent' = sent]_vars

\* C9 (dispatch failure outcome): when the dispatch call reports a failure,
\* the pass ends with a ledger row for the event holding replied = FALSE and
\* the dispatch-failure reason, which keeps every later cycle from it.
C9_DispatchFailureRecorded ==
    [][(pc = "dispatch" /\ result' = "error") =>
          LET ledger == IF cur.kind = "comment"
                        THEN processed_comments' ELSE processed_messages'
          IN /\ cur.id \in DOMAIN ledger
             /\ ~ledger[cur.id].replied
             /\ ledger[cur.id].error \in { "Failed to post reply to Facebook",
                                           "Failed to send message via Facebook" }]_vars

\* C10 (signature rejection), as stated, for every app secret: a delivery
\* whose header does not carry the HMAC of its body is never processed and
\* never answered 200 or 500.
C10_RejectedWhateverSecret ==
    (wpc # "idle" \/ status \in {200, 500}) => sig_match

\* C10 (signature rejection), with an app secret configured: a delivery whose
\* header does not carry the HMAC of its body is never processed and never
\* answered 200 or 500; it is answered 403.
C10_RejectedWithSecret ==
    app_secret # "" =>
        /\ (wpc # "idle" \/ status \in {200, 500}) => sig_match
        /\ (status # 0 /\ ~sig_match) => (status = 403 /\ wpc = "idle")

\* a delivery with a wrong or missing signature was answered 403
C10_Witness ==
    /\ app_secret # ""
    /\ ~sig_match
    /\ status = 403
    /\ wpc = "idle"

\* C11 (scheduler non-overlap): at most one check cycle is in progress at any
\* time, the initial one run by main() included; a tick that finds the cycle
\* running is skipped and starts nothing.
C11_NoOverlap ==
    /\ instances + (IF main_pc = "initial_check" /\ pc # "idle" THEN 1 ELSE 0) <= 1
    /\ main_pc = "initial_check" => instances = 0
    /\ instances > 0 => pc # "idle"

\* the interval fired during a cycle and the run was skipped
C11_Witness ==
    /\ main_pc = "scheduler"
    /\ last_tick = "skipped"
    /\ instances = 1
    /\ pc \in {"lookup", "generate", "dispatch"}

\* C12 (graceful shutdown): main() returns only when no check cycle is left
\* unfinished.
C12_InFlightCycleCompletes ==
    main_pc = "exit" => pc = "idle"

\* C13 (ledger record stability): no step removes a ledger row or changes the
\* outcome (our_reply, replied, error) a row already holds.
C13_RecordStable ==
    [][(\A i \in DOMAIN processed_comments :
            i \in DOMAIN processed_comments'
            /\ processed_comments'[i] = processed_comments[i])
       /\ (\A j \in DOMAIN processed_messages :
            j \in DOMAIN processed_messages'
            /\ processed_messages'[j] = processed_messages[j])]_vars

\* a comment whose row stores a skip or a failure was listed again, and the
\* handler returned without touching the row
C13_Witness ==
    /\ pc = "next"
    /\ phase = "comment"
    /\ result = "skipped"
    /\ \E i \in DOMAIN processed_comments : ~processed_comments[i].replied

\* C14 (ledger existence): as soon as a record call has returned, the ledger
\* check finds a row for that id (here: the record call that ends the
\* dispatch step).
C14_ExistsAfterRecordCall ==
    [][(pc = "dispatch" /\ pc' = "next") =>
          cur.id \in DOMAIN processed_comments' \cup DOMAIN processed_messages']_vars

\* C15 (filter order): the poll handlers try self, then hidden, then empty, and
\* the first rule that matches decides the row: a comment of the configured
\* page id gets the self reason whatever else it matches, a hidden comment of
\* someone else the hidden reason even when blank, and only an event no rule
\* matches goes on to the existing-reply lookup and to generation.
C15_FilterOrder ==
    /\ \A e \in CommentPayloads :
         LET row == comment_filters(e, page_id) IN
         /\ e.from_id = page_id => row = OwnCommentRecord
         /\ (e.from_id # page_id /\ e.is_hidden) => row = HiddenCommentRecord
         /\ (e.from_id # page_id /\ ~e.is_hidden /\ Strip(e.text) = <<>>)
                => row = EmptyCommentRecord
         /\ (e.from_id # page_id /\ ~e.is_hidden /\ Strip(e.text) # <<>>)
                => row = NoRec
    /\ \A m \in MessagePayloads :
         LET row == message_filters(m, page_id) IN
         /\ m.from_id = page_id => row = OwnMessageRecord
         /\ (m.from_id # page_id /\ Strip(m.text) = <<>>) => row = EmptyMessageRecord
         /\ (m.from_id # page_id /\ Strip(m.text) # <<>>) => row = NoRec
    /\ pc \in {"lookup", "generate", "dispatch"} =>
         /\ cur.from_id # page_id
         /\ ~cur.is_hidden
         /\ Strip(cur.text) # <<>>

\* a comment of the page was filtered and its row carries the self reason
C15_Witness ==
    /\ pc = "next"
    /\ result = "new"
    /\ \E i \in DOMAIN processed_comments : processed_comments[i] = OwnCommentRecord

\* C16 (hidden-comment exclusion): a hidden comment never reaches the
\* generation call, on the poll path or on the webhook.
C16_HiddenExcluded ==
    /\ pc \in {"generate", "dispatch"} => ~cur.is_hidden
    /\ wpc \in {"generate", "dispatch"} => ~wcur.is_hidden

\* C17 (echo exclusion): an echo never reaches the generation or the dispatch
\* call, and once the handler has dropped it the ledger holds a row for it.
C17_EchoSkippedAndRecorded ==
    /\ wpc \in {"generate", "dispatch"} => ~wcur.is_echo
    /\ (wpc = "event" /\ wcur.is_echo /\ wcur.id # NoId) =>
           wcur.id \in DOMAIN processed_messages

\* C18 (already-replied filter): when the existing-reply lookup ends the
\* handling of a comment, no generation or dispatch call is made and the
\* ledger holds a row for the comment with replied = TRUE and the text of the
\* reply found.
C18_AlreadyRepliedRecorded ==
    [][(pc = "lookup" /\ pc' = "next") =>
          /\ sent' = sent
          /\ cur.id \in DOMAIN processed_comments'
          /\ processed_comments'[cur.id] = AlreadyRepliedRecord(fb_replies[cur.id])]_vars

\* C19 (terminal outcomes are always recorded): when the handling of an event
\* that got past the ledger check and the filters ends, on the poll path or
\* on the webhook, the ledger holds a row for its id.
C19_TerminalOutcomeRecorded ==
    [][/\ (pc \in {"lookup", "generate", "dispatch"} /\ pc' = "next") =>
            cur.id \in DOMAIN processed_comments' \cup DOMAIN processed_messages'
       /\ (wpc \in {"generate", "dispatch"} /\ wpc' = "event" /\ wcur.id # NoId) =>
            wcur.id \in DOMAIN processed_comments' \cup DOMAIN processed_messages']_vars

\* C20 (pre-ledger rejection): a payload without an id never reaches the
\* generation or the dispatch call and never gets a ledger row.
C20_MissingIdRejected ==
    /\ pc \in {"lookup", "generate", "dispatch"} => cur.id # NoId
    /\ wpc \in {"generate", "dispatch"} => wcur.id # NoId
    /\ NoId \notin DOMAIN processed_comments \cup DOMAIN processed_messages

\* C21 (webhook verification exchange): the GET handler answers 200 with the
\* challenge string as body exactly when mode is "subscribe" and the token is
\* the configured one; every other request is answered with a rejection
\* status and a body that is not its challenge.
C21_VerificationExchange ==
    (gpc = "idle" /\ g_status # 0) =>
        LET accepted == query.mode = "subscribe" /\ query.token = VERIFY_TOKEN
            echoed == query.challenge # None /\ g_body = query.challenge
        IN /\ accepted <=> (g_status = 200 /\ echoed)
           /\ ~accepted => (g_status = 403 /\ ~echoed)

C23_OneActivityEntryPerCycle ==
    pc = "return" => log_entries = 1

C25_FailedListingTouchesNothing ==
    [][~listed =>
          /\ todo = 0
          /\ cur = NoEvent
          /\ pc \in {"next", "return"}
          /\ pc' \notin {"lookup", "generate", "dispatch"}
          /\ processed_comments' = processed_comments
          /\ processed_messages' = processed_messages
          /\ sent' = sent
          /\ fb_replies' = fb_replies]_vars

\* process_all_comments has returned after a failed get_page_posts
C25_Witness ==
    /\ ~listed
    /\ phase = "comment"
    /\ pc = "return"

\* C26 (generation context): for a comment no context is passed; for a
\* message the context is made of the messages that have a text among the
\* five newest of the thread, at most five lines, the oldest first, each line
\* "<senderName>: <text>", with a newline between two lines and nowhere else.
C26_GenerationContext ==
    fn_pc = "context" =>
        IF fn_in.kind = "comment" THEN fn_out = None
        ELSE IF fn_in.outcome # "ok" THEN fn_out = <<>>
        ELSE
        LET thread == fn_in.thread
            n == IF Len(thread) < 5 THEN Len(thread) ELSE 5
            \* the n newest messages, the oldest of them first
            recent == [k \in 1..n |-> thread[n + 1 - k]]
            shown == SelectSeq(recent, LAMBDA msg : msg.text # "")
        IN /\ Len(shown) <= 5
           /\ Len(fn_out) = IF shown = <<>> THEN 0 ELSE 4 * Len(shown) - 1
           /\ \A k \in 1..Len(shown) :
                /\ fn_out[4 * k - 3] =
                     (IF shown[k].name = None THEN "Unknown" ELSE shown[k].name)
                /\ fn_out[4 * k - 2] = ": "
                /\ fn_out[4 * k - 1] = shown[k].text
                /\ k < Len(shown) => fn_out[4 * k] = NL

\* the context of a message in a thread of more than five messages was
\* built, five lines long
C26_Witness ==
    /\ fn_pc = "context"
    /\ fn_in.kind = "message"
    /\ fn_in.outcome = "ok"
    /\ Len(fn_in.thread) > 5
    /\ fn_in.thread[1] # fn_in.thread[2]
    /\ Len(fn_out) = 19

\* C27 (generated-text post-processing), as stated: for a non-empty text of
\* the service the result is the trimmed text, and when the first and the last
\* character of the trimmed text are quote marks it is the trimmed text
\* without the quote mark in front of it and the quote mark behind it.
C27_TrimmedAndUnquoted ==
    (fn_pc = "generate" /\ Truthy(fn_in)) =>
        LET trimmed == Strip(fn_in) IN
        IF trimmed # <<>> /\ trimmed[1] = QUOTE /\ trimmed[Len(trimmed)] = QUOTE
        THEN trimmed = <<QUOTE>> \o fn_out \o <<QUOTE>>
        ELSE fn_out = trimmed

\* C27 (generated-text post-processing), a lone quote mark apart: for a
\* non-empty text of the service the result is the trimmed text; when the
\* trimmed text has two characters or more and both its first and its last
\* character are quote marks, it is the trimmed text without those two; a
\* trimmed text that is one quote mark and nothing else gives the empty text.
C27_TrimmedAndUnquotedOnce ==
    (fn_pc = "generate" /\ Truthy(fn_in)) =>
        LET trimmed == Strip(fn_in) IN
        IF trimmed = <<QUOTE>> THEN fn_out = <<>>
        ELSE IF trimmed # <<>> /\ trimmed[1] = QUOTE /\ trimmed[Len(trimmed)] = QUOTE
        THEN trimmed = <<QUOTE>> \o fn_out \o <<QUOTE>>
        ELSE fn_out = trimmed

\* a text in quotes after leading whitespace lost the whitespace and the
\* quotes
C27_Witness ==
    /\ fn_pc = "generate"
    /\ fn_in = <<SP, QUOTE, "a", QUOTE>>
    /\ fn_out = <<"a">>

\* C28 (the reply goes back to the originating channel): the dispatch call
\* made for a comment is reply_to_comment on that comment's own id, the one
\* made for a message is send_message to the sender of that message, and
\* either carries the reply generated for that event.
C28_ReplyToOriginatingChannel ==
    fn_pc = "dispatch" =>
        /\ fn_out.message = fn_in.ai_response
        /\ fn_in.event.kind = "comment" =>
              /\ fn_out.api = "reply_to_comment"
              /\ fn_out.comment_id = fn_in.event.id
        /\ fn_in.event.kind = "message" =>
              /\ fn_out.api = "send_message"
              /\ fn_out.recipient_id = fn_in.event.from_id

\* a reply to a comment of the second customer went to that comment's thread
C28_Witness ==
    /\ fn_pc = "dispatch"
    /\ fn_in.event.kind = "comment"
    /\ fn_in.event.from_id = "u2"
    /\ fn_out.api = "reply_to_comment"
    /\ fn_out.comment_id = fn_in.event.id

\* C29 (transport fault on the existing-reply lookup): a comment whose lookup
\* fails is dropped for the cycle, so a comment the page has already replied
\* to never goes from the lookup to the generation call: either the lookup
\* finds the reply, or it fails and the comment is left for a later cycle.
C29_FailedLookupSkipsComment ==
    [][(pc = "lookup" /\ cur.id \in DOMAIN fb_replies) => pc' # "generate"]_vars

\* C30 (a cycle never crashes the scheduler): whatever happens to a candidate,
\* process_all_comments / process_all_messages goes on or returns; when
\* process_all_comments has returned, process_all_messages runs in the same
\* cycle; when process_all_messages has returned, run_check_cycle returns to
\* a scheduler that is still running.
C30_CycleNeverCrashes ==
    [][/\ pc \in {"next", "lookup", "generate", "dispatch"} =>
            (pc' \in {"next", "lookup", "generate", "dispatch", "return"}
             /\ phase' = phase /\ main_pc' = main_pc)
       /\ (pc = "return" /\ phase = "comment" /\ pc' # pc) =>
            (pc' = "next" /\ phase' = "message" /\ main_pc' = main_pc)
       /\ (pc = "return" /\ phase = "message" /\ pc' # pc) =>
            (pc' = "idle" /\ main_pc' = "scheduler")
       /\ pc = "return" => pc' \in {"return", "next", "idle"}]_vars

\* process_all_comments has returned from a fault that left listed comments
\* unvisited
C30_Witness ==
    /\ pc = "return"
    /\ phase = "comment"
    /\ todo > 0
    /\ log_entries = 0

\* C31 (latest customer message only): of the messages fetched for a
\* conversation the handler takes one at most, the first in the list whose
\* sender is not the page, and none when the page sent them all; only that
\* message can reach the generation call, the dispatch call or the ledger.
C31_LatestCustomerMessageOnly ==
    \A messages \in MessageLists :
        LET e == get_latest_customer_message(messages, page_id) IN
        IF \A k \in 1..Len(messages) : messages[k].from_id = PAGE_ID
        THEN e = NoEvent
        ELSE \E k \in 1..Len(messages) :
                /\ e = messages[k]
                /\ messages[k].from_id # PAGE_ID
                /\ \A j \in 1..(k - 1) : messages[j].from_id = PAGE_ID

\* C32 (CycleStats consistency): in the stats a poll cycle returns,
\* replies_sent <= new <= found, replies_sent is the number of dispatch calls
\* of the cycle that succeeded, no counter is negative, and for a message
\* cycle new + errors is at most the number of conversations checked.
C32_StatsConsistent ==
    fn_pc = "cycle" =>
        LET stats == fn_out.stats IN
        /\ stats.replies_sent <= stats.new_count
        /\ stats.new_count <= stats.found
        /\ stats.replies_sent = fn_out.dispatched
        /\ \A f \in DOMAIN stats : stats[f] >= 0
        /\ fn_in.kind = "message" =>
              stats.new_count + stats.errors <= stats.checked

\* a message cycle replied in its first conversation and was left by an
\* exception in its second
C32_Witness ==
    /\ fn_pc = "cycle"
    /\ fn_in.kind = "message"
    /\ Len(fn_in.candidates) = 2
    /\ fn_out.stats.replies_sent = 1
    /\ fn_out.stats.errors = 1
    /\ ~fn_in.candidates[2].fate.query_ok

\* C33 (ledger outcome well-formedness): a ledger row has replied = TRUE
\* exactly when it has no error reason; a comment row has replied = TRUE only
\* if a reply of the page stands under the comment on Facebook (posted by a
\* dispatch call that succeeded, or found by the lookup); a message row gets
\* replied = TRUE only in the step in which the dispatch call for that
\* message succeeds.
C33_LedgerWellFormed ==
    [][/\ \A i \in DOMAIN processed_comments' :
            /\ processed_comments'[i].replied <=> processed_comments'[i].error = None
            /\ processed_comments'[i].replied => i \in DOMAIN fb_replies'
       /\ \A j \in DOMAIN processed_messages' :
            /\ processed_messages'[j].replied <=> processed_messages'[j].error = None
            /\ processed_messages'[j].replied => j \in sent'
            /\ (j \notin DOMAIN processed_messages /\ processed_messages'[j].replied) =>
                  (pc = "dispatch" /\ cur.id = j /\ result' = "replied")]_vars

\* the ledger holds the row of a reply that was not posted next to the row
\* of a message that was answered
C33_Witness ==
    /\ \E i \in DOMAIN processed_comments :
         processed_comments[i].error = "Failed to post reply to Facebook"
    /\ \E j \in DOMAIN processed_messages : processed_messages[j].replied

\* C34 (dispatch follows successful generation): on the poll path and on the
\* webhook, the dispatch call for an event is reached only from the
\* generation call for that same event, with the text that call returned,
\* which is neither absent nor empty; the reply posted is that text; and
\* after its dispatch call an event gets no further generation or dispatch
\* call in the pass.
C34_DispatchFollowsGeneration ==
    [][/\ (pc' = "dispatch" /\ pc # "dispatch") =>
            /\ pc = "generate"
            /\ cur' = cur
            /\ ai_response' \notin {NoneText, <<>>}
            /\ \E raw \in RawOutputs : ai_response' = generate_response(raw)
       /\ (pc = "dispatch" /\ pc' = "dispatch") => ai_response' = ai_response
       /\ (pc = "dispatch" /\ pc' # "dispatch") =>
            /\ pc' = "next"
            /\ (cur.id \notin DOMAIN fb_replies /\ cur.id \in DOMAIN fb_replies') =>
                  fb_replies'[cur.id] = ai_response
       /\ (pc = "generate" /\ pc' # "generate") => pc' \in {"dispatch", "next"}
       /\ (wpc' = "dispatch" /\ wpc # "dispatch") =>
            /\ wpc = "generate"
            /\ wcur' = wcur
            /\ w_ai' \notin {NoneText, <<>>}
            /\ \E raw \in RawOutputs : w_ai' = generate_ai_response(raw)
       /\ (wpc = "dispatch" /\ wpc' = "dispatch") => w_ai' = w_ai
       /\ (wpc = "dispatch" /\ wpc' # "dispatch") =>
            /\ wpc' = "event"
            /\ (wcur.id \notin DOMAIN fb_replies /\ wcur.id \in DOMAIN fb_replies') =>
                  fb_replies'[wcur.id] = w_ai
       /\ (wpc = "generate" /\ wpc' # "generate") => wpc' \in {"dispatch", "event"}]_vars

\* the reply the AI service gave in quotes is about to be posted, without
\* the quotes, under the comment it was generated for
C34_Witness ==
    /\ pc = "dispatch"
    /\ cur.kind = "comment"
    /\ cur.id \notin DOMAIN fb_replies
    /\ ai_response = <<"a">>

\* C35 (own-identity consistency): whenever a cycle runs, the id the handlers
\* compare senders with in the self-origin filter and in the already-replied
\* check is the id of the page the access token belongs to, the one
\* FacebookAPI.page_id holds after verify_token.
C35_OwnIdentityConsistent ==
    pc # "idle" => page_id = PAGE_ID

\* C36 (push batch independence): within one delivery every event of the entry
\* is filtered on its own: visiting one event, whatever it is, leaves every
\* event after it still to be visited, so an eligible event gets its generation
\* call regardless of the events before it.
C36_EachEventFilteredOnItsOwn ==
    [][(wpc = "event" /\ wtodo > 0 /\ wpc' \in {"event", "generate"})
          => wtodo' = wtodo - 1]_vars

\* C37 (no duplicate reply when the ledger write is lost): with every
\* dispatched reply delivered, an id that a reply was sent for and that has no
\* ledger row (the write after the reply was lost) is never taken to the
\* dispatch call again, comment or message.
C37_NoSecondReplyAfterLostWrite ==
    (pc = "dispatch"
       /\ cur.id \notin DOMAIN processed_comments \cup DOMAIN processed_messages)
        => cur.id \notin sent

====
